---------------------------- MODULE Spec2Model ----------------------------
(***************************************************************************)
(* A model of termistat.cpp: the terminal-mode switch (setNonBlocking),    *)
(* the progress-bar renderer (drawProgressBar), the CPU, battery, disk and *)
(* network samplers, and the main refresh/quit loop.                       *)
(*                                                                         *)
(* The module holds several specifications over one set of variables:      *)
(*   Spec         main(): start, one render step per section, the 10       *)
(*                keystroke checks, quit; the environment feeds bytes      *)
(*   SpecTerm     arbitrary sequences of setNonBlocking(true/false)        *)
(*   SpecCPU      successive calls of showCPU on arbitrary samples         *)
(*   SpecBar      drawProgressBar on arbitrary arguments, and showBattery  *)
(*                on arbitrary contents of the battery directory           *)
(*   SpecDisk     showDisk on arbitrary mount lists                        *)
(*   SpecNet      showNetwork on arbitrary interface lines                 *)
(* Variables a specification does not use keep their initial value.        *)
(*                                                                         *)
(* A C++ float is modelled as the exact rational [n |-> .., d |-> ..] with  *)
(* d > 0 that it approximates.  Eighths of a percent, integers and the     *)
(* products the code forms from them are exactly representable in         *)
(* binary32; tenths and quotients of counters are taken at their exact     *)
(* value, the rounding of binary32 (relative error 2^-24) is not          *)
(* modelled.  For the percentages drawn here, comparisons against the     *)
(* thresholds 30, 60, 75, 85 (all representable) come out the same for    *)
(* the float and the rational.                                             *)
(***************************************************************************)
EXTENDS Integers, Sequences, FiniteSets, TLC

VARIABLES
    \* ---- process / main loop
    pc,          \* position of main(): "off" when main is not running
    i,           \* loop variable of the wait loop (line 368)
    stdinq,      \* unread bytes of standard input, oldest first
    exitCode,    \* -1 while running, 0 after return 0, 134 after abort()
    hwmon,       \* whether /sys/class/hwmon exists
    rendered,    \* history: what the current tick has written, in order
    checks,      \* history: keystroke checks done in the latest wait window
    looped,      \* history: whether a wait window has run to its end
    lastRead,    \* history: byte the latest check read, "none" if it read nothing
    nl,          \* history: the first '\n' fed during a wait window
    \* ---- terminal (setNonBlocking)
    tty,         \* whether standard input is a terminal
    lflag,       \* c_lflag bits of the terminal
    fl,          \* file status flags of standard input (F_GETFL)
    saved,       \* static bool saved
    oldt,        \* static struct termios oldt (its c_lflag)
    origL,       \* history: lflag at process start
    origFl,      \* history: fl at process start
    getattrCalls,\* history: number of times line 25 (tcgetattr) ran
    lastCall,    \* history: latest call of setNonBlocking: "none", "enable", "disable"
    calls,       \* history: number of calls of setNonBlocking (SpecTerm)
    \* ---- showCPU
    prevIdle,    \* static long prevIdle
    prevTotal,   \* static long prevTotal
    cpuBefore,   \* history: idle and total time of the sample before the latest
    cpuCalls,    \* history: number of calls of showCPU, capped at 2
    \* ---- the samplers and the renderer, called on their own
    arg,         \* what the latest call was given or read from the system
    out          \* what the latest call wrote to standard output

mainVars == <<pc, i, stdinq, exitCode, hwmon, rendered, checks, looped, lastRead, nl>>
termVars == <<tty, lflag, fl, saved, oldt, origL, origFl, getattrCalls, lastCall, calls>>
cpuVars  == <<prevIdle, prevTotal, cpuBefore, cpuCalls>>
ioVars   == <<arg, out>>
vars == <<mainVars, termVars, cpuVars, ioVars>>

-----------------------------------------------------------------------------
(* Bounds of the model *)

\* most unread bytes standard input holds
MaxPending == 2
\* most calls of setNonBlocking in a run of SpecTerm
MaxCalls == 4

-----------------------------------------------------------------------------
(* setNonBlocking, lines 19-41 *)

ICANON == "ICANON"
ECHO == "ECHO"
ISIG == "ISIG"
O_NONBLOCK == "O_NONBLOCK"
O_APPEND == "O_APPEND"

LFlagBits == {ICANON, ECHO, ISIG}
FlBits == {O_NONBLOCK, O_APPEND}

\* tcgetattr(STDIN_FILENO, &t): fills t from the terminal; fails, leaving t
\* alone, when standard input is no terminal
Tcgetattr(t) == IF tty THEN lflag ELSE t

\* tcsetattr(STDIN_FILENO, TCSANOW, &t): the terminal's flags afterwards
Tcsetattr(t) == IF tty THEN t ELSE lflag

\* lines 24-27: the static oldt after the save-once block
SaveOnce == IF ~saved THEN Tcgetattr(oldt) ELSE oldt

\* line 25 runs only inside if (!saved)
SaveRuns == ~saved

\* line 38: flags & ~O_NONBLOCK
ClearNonBlock(flags) == flags \ {O_NONBLOCK}

setNonBlocking(enable) ==
    /\ lastCall' = IF enable THEN "enable" ELSE "disable"
    /\ UNCHANGED <<tty, origL, origFl>>
    /\ IF enable
       THEN /\ oldt' = SaveOnce
            /\ getattrCalls' = IF SaveRuns THEN getattrCalls + 1 ELSE getattrCalls
            /\ saved' = TRUE
            /\ lflag' = Tcsetattr(oldt' \ {ICANON, ECHO})
            /\ fl' = fl \cup {O_NONBLOCK}
       ELSE /\ UNCHANGED <<saved, oldt, getattrCalls>>
            /\ IF saved
               THEN /\ lflag' = Tcsetattr(oldt)
                    /\ fl' = ClearNonBlock(fl)
               ELSE UNCHANGED <<lflag, fl>>

\* the terminal as the process finds it
InitTerminal ==
    /\ tty \in BOOLEAN
    /\ lflag \in (IF tty THEN SUBSET LFlagBits ELSE {{}})
    /\ fl \in SUBSET FlBits
    /\ saved = FALSE
    /\ oldt = {}
    /\ origL = lflag
    /\ origFl = fl
    /\ getattrCalls = 0
    /\ lastCall = "none"
    /\ calls = 0


-----------------------------------------------------------------------------
(* Values of the variables a specification does not use *)

NoNl == [ahead |-> -1, checks |-> 0, rendered |-> FALSE]

MainOff ==
    /\ pc = "off"
    /\ i = 0
    /\ stdinq = <<>>
    /\ exitCode = -1
    /\ hwmon = TRUE
    /\ rendered = <<>>
    /\ checks = 0
    /\ looped = FALSE
    /\ lastRead = "none"
    /\ nl = NoNl

TermOff ==
    /\ tty = FALSE
    /\ lflag = {}
    /\ fl = {}
    /\ saved = FALSE
    /\ oldt = {}
    /\ origL = {}
    /\ origFl = {}
    /\ getattrCalls = 0
    /\ lastCall = "none"
    /\ calls = 0

CpuOff ==
    /\ prevIdle = 0
    /\ prevTotal = 0
    /\ cpuBefore = [idle |-> 0, total |-> 0]
    /\ cpuCalls = 0

NoCall == [call |-> "none", text |-> <<>>, bars |-> <<>>]

NoArg == [fn |-> "none"]

IoOff ==
    /\ arg = NoArg
    /\ out = NoCall

-----------------------------------------------------------------------------
(* main, lines 353-380 *)

\* iterations of the wait loop, line 368
WaitChecks == 10

\* bytes the environment types
Bytes == {"\n", "\r", "a"}

Terminated == pc \in {"quit", "aborted"}

\* a variant of the test of line 372 that forgets '\n'
IsQuitKey_CarriageReturnOnly(n, c) == n > 0 /\ c = "\r"

\* line 372: n > 0 && (c == '\n' || c == '\r')
IsQuitKey(n, c) == n > 0 /\ (c = "\n" \/ c = "\r")

\* a step of main that writes one section and goes on to the next
Section(at, name, next) ==
    /\ pc = at
    /\ rendered' = Append(rendered, name)
    /\ pc' = next
    /\ nl' = IF nl.ahead >= 0 THEN [nl EXCEPT !.rendered = TRUE] ELSE nl

\* lines 354-355: the banner, then setNonBlocking(true)
Start ==
    /\ pc = "start"
    /\ setNonBlocking(TRUE)
    /\ pc' = "clear"
    /\ UNCHANGED <<i, stdinq, exitCode, hwmon, rendered, checks, looped, lastRead, nl, calls>>
    /\ UNCHANGED <<cpuVars, ioVars>>

\* lines 358-359: a tick starts by clearing the screen and writing the banner
ClearScreen ==
    /\ pc = "clear"
    /\ rendered' = <<"clear">>
    /\ pc' = "memory"
    /\ nl' = IF nl.ahead >= 0 THEN [nl EXCEPT !.rendered = TRUE] ELSE nl
    /\ UNCHANGED <<i, stdinq, exitCode, hwmon, checks, looped, lastRead>>
    /\ UNCHANGED <<termVars, cpuVars, ioVars>>

\* line 361
MainShowMemory ==
    /\ Section("memory", "Memory", "cpu")
    /\ UNCHANGED <<i, stdinq, exitCode, hwmon, checks, looped, lastRead>>
    /\ UNCHANGED <<termVars, cpuVars, ioVars>>

\* readFanRPM, lines 162-186, as main sees it: directory_iterator(basePath)
\* throws filesystem_error when the directory cannot be opened; nothing
\* catches it, so the process ends in std::terminate -> abort()
FanScanThrows == ~hwmon

\* line 362: showCPU writes its title and usage bar (lines 216-219) and then
\* calls readFanRPM (line 224)
MainShowCPU ==
    /\ Section("cpu", "CPU", IF FanScanThrows THEN "aborted" ELSE "battery")
    /\ exitCode' = IF FanScanThrows THEN 134 ELSE exitCode
    /\ UNCHANGED <<i, stdinq, hwmon, checks, looped, lastRead>>
    /\ UNCHANGED <<termVars, cpuVars, ioVars>>

\* line 363
MainShowBattery ==
    /\ Section("battery", "Battery", "disks")
    /\ UNCHANGED <<i, stdinq, exitCode, hwmon, checks, looped, lastRead>>
    /\ UNCHANGED <<termVars, cpuVars, ioVars>>

\* line 364
MainShowDisk ==
    /\ Section("disks", "Disks", "network")
    /\ UNCHANGED <<i, stdinq, exitCode, hwmon, checks, looped, lastRead>>
    /\ UNCHANGED <<termVars, cpuVars, ioVars>>

\* line 365, then the wait loop is entered with i = 0 (line 368)
MainShowNetwork ==
    /\ Section("network", "Network", "wait")
    /\ i' = 0
    /\ checks' = 0
    /\ UNCHANGED <<stdinq, exitCode, hwmon, looped, lastRead>>
    /\ UNCHANGED <<termVars, cpuVars, ioVars>>

\* lines 369-375, one iteration of the wait loop: sleep 100ms, read at most
\* one byte, quit on '\n' or '\r'.  read() on an empty input returns -1
\* (EAGAIN) when O_NONBLOCK is set and waits for a byte otherwise.
Check ==
    /\ pc = "wait"
    /\ (stdinq # <<>> \/ O_NONBLOCK \in fl)
    /\ LET n == IF stdinq = <<>> THEN -1 ELSE 1
           c == IF n > 0 THEN Head(stdinq) ELSE "none"
       IN /\ stdinq' = IF n > 0 THEN Tail(stdinq) ELSE stdinq
          /\ lastRead' = c
          /\ checks' = checks + 1
          /\ nl' = IF nl.ahead >= 0 THEN [nl EXCEPT !.checks = @ + 1] ELSE nl
          /\ IF IsQuitKey(n, c)
             THEN /\ setNonBlocking(FALSE)
                  /\ pc' = "quit"
                  /\ exitCode' = 0
                  /\ UNCHANGED <<i, looped, calls>>
             ELSE /\ IF i + 1 < WaitChecks
                     THEN /\ i' = i + 1
                          /\ UNCHANGED <<pc, looped>>
                     ELSE /\ i' = 0
                          /\ pc' = "clear"
                          /\ looped' = TRUE
                  /\ UNCHANGED exitCode
                  /\ UNCHANGED termVars
    /\ UNCHANGED <<hwmon, rendered>>
    /\ UNCHANGED <<cpuVars, ioVars>>

\* the user types a byte; the terminal queues it until a read takes it
Feed ==
    /\ pc \notin {"off", "quit", "aborted"}
    /\ Len(stdinq) < MaxPending
    /\ \E c \in Bytes :
         /\ stdinq' = Append(stdinq, c)
         /\ nl' = IF c = "\n" /\ pc = "wait" /\ nl.ahead < 0
                  THEN [ahead |-> Len(stdinq), checks |-> 0, rendered |-> FALSE]
                  ELSE nl
    /\ UNCHANGED <<pc, i, exitCode, hwmon, rendered, checks, looped, lastRead>>
    /\ UNCHANGED <<termVars, cpuVars, ioVars>>

-----------------------------------------------------------------------------
(* Calls of setNonBlocking in any order *)

TermEnable ==
    /\ calls < MaxCalls
    /\ setNonBlocking(TRUE)
    /\ calls' = calls + 1
    /\ UNCHANGED <<mainVars, cpuVars, ioVars>>

TermDisable ==
    /\ calls < MaxCalls
    /\ setNonBlocking(FALSE)
    /\ calls' = calls + 1
    /\ UNCHANGED <<mainVars, cpuVars, ioVars>>


-----------------------------------------------------------------------------
(* float values, as exact rationals with a positive denominator *)

Rat(n, d) == IF d < 0 THEN [n |-> -n, d |-> -d] ELSE [n |-> n, d |-> d]

\* x < k for a float x and an integer literal k
Less(x, k) == x.n < k * x.d

\* (int)(a / b) for b > 0: conversion to int truncates toward zero
Trunc(a, b) == IF a >= 0 THEN a \div b ELSE -((-a) \div b)

\* operator<< under std::fixed << setprecision(1): the nearest tenth, ties to
\* the even digit; the result is the number of tenths printed
Fixed1(x) ==
    LET q == (10 * x.n) \div x.d
        r == (10 * x.n) % x.d
    IN  IF 2 * r < x.d THEN q
        ELSE IF 2 * r > x.d THEN q + 1
        ELSE IF q % 2 = 0 THEN q ELSE q + 1

-----------------------------------------------------------------------------
(* drawProgressBar, lines 72-102 *)

\* line 73: int pos = percent * width / 100
BarPos(percent, width) == Trunc(percent.n * width, percent.d * 100)

\* a variant of lines 76-92 whose comparisons are <= instead of <
BarColor_InclusiveBounds(percent, invertColors) ==
    IF ~invertColors
    THEN IF percent.n <= 60 * percent.d THEN "green"
         ELSE IF percent.n <= 85 * percent.d THEN "yellow"
         ELSE "red"
    ELSE IF percent.n <= 30 * percent.d THEN "red"
         ELSE IF percent.n <= 75 * percent.d THEN "yellow"
         ELSE "green"

\* lines 76-92
BarColor(percent, invertColors) ==
    IF ~invertColors
    THEN IF Less(percent, 60) THEN "green"
         ELSE IF Less(percent, 85) THEN "yellow"
         ELSE "red"
    ELSE IF Less(percent, 30) THEN "red"
         ELSE IF Less(percent, 75) THEN "yellow"
         ELSE "green"

\* a variant of line 96 with i <= pos
CellFilled_Inclusive(idx, pos) == idx <= pos

\* line 96: cell i (from 0) is drawn in the colour when i < pos
CellFilled(idx, pos) == idx < pos

\* lines 94-101: the cells of the bar, then the percentage
drawProgressBar(percent, width, invertColors) ==
    LET pos == BarPos(percent, width)
        color == BarColor(percent, invertColors)
    IN  [percent |-> percent,
         width   |-> width,
         invert  |-> invertColors,
         color   |-> color,
         cells   |-> [j \in 1..width |-> IF CellFilled(j - 1, pos) THEN color ELSE "gray"],
         text    |-> Fixed1(percent)]

\* default width is 30 (line 72); every caller passes 40 (lines 136, 218, 262)
CallerWidth == 40

-----------------------------------------------------------------------------
(* readBattery, lines 236-251, and showBattery, lines 256-267 *)

\* a variant of line 244 with || in place of &&
BothOpen_Either(env) == env.capOpen \/ env.statusOpen

\* lines 244-248: filled in only when both files are open
BothOpen(env) == env.capOpen /\ env.statusOpen

readBattery(env) ==
    IF BothOpen(env)
    THEN [capacity |-> env.capacity, status |-> env.status, available |-> TRUE]
    ELSE [capacity |-> -1, status |-> "Unknown", available |-> FALSE]

\* line 262: drawProgressBar(bat.capacity, 40, true)
BatteryInvert == TRUE

showBattery(env) ==
    LET bat == readBattery(env)
    IN  IF bat.available
        THEN [call |-> "showBattery", info |-> bat,
              text |-> <<"Battery", bat.status>>,
              bars |-> <<drawProgressBar(Rat(bat.capacity, 1), CallerWidth, BatteryInvert)>>]
        ELSE [call |-> "showBattery", info |-> bat,
              text |-> <<"Battery", "Battery info not available">>,
              bars |-> <<>>]

-----------------------------------------------------------------------------
(* showMemory, lines 119-138 *)

\* lines 131-137, on the MemTotal and MemAvailable values (kB) of
\* /proc/meminfo; the bar is drawn with the default invertColors = false
showMemory(m) ==
    LET used == m.memTotal - m.memAvailable
        percent == Rat(100 * used, m.memTotal)
    IN  [call |-> "showMemory",
         text |-> <<"Memory", used \div 1024, m.memTotal \div 1024>>,
         bars |-> <<drawProgressBar(percent, CallerWidth, FALSE)>>]

-----------------------------------------------------------------------------
(* The renderer, the memory sampler and the battery sampler called on arbitrary inputs *)

\* widths below CallerWidth the bar is also drawn with
MaxWidth == 3

Widths == (1..MaxWidth) \cup {CallerWidth}

\* percentages in [0,100]: every eighth and every tenth
BarPercents == {Rat(e, 8) : e \in 0..800} \cup {Rat(t, 10) : t \in 0..1000}

BarArgs ==
    [fn : {"drawProgressBar"}, percent : BarPercents, width : Widths,
     invertColors : BOOLEAN]

BatEnvs ==
    [fn : {"showBattery"}, capOpen : BOOLEAN, statusOpen : BOOLEAN,
     capacity : 0..100, status : {"Charging", "Discharging", "Full"}]

\* /proc/meminfo of a running system: MemTotal > 0, MemAvailable <= MemTotal
MemInfos ==
    {m \in [fn : {"showMemory"}, memTotal : {1024, 3072, 4096},
            memAvailable : {0, 512, 1024, 3072, 4096}] :
       m.memAvailable <= m.memTotal}

\* one call of drawProgressBar on the arguments drawn
CallDrawProgressBar ==
    /\ out = NoCall
    /\ arg.fn = "drawProgressBar"
    /\ out' = [call |-> "drawProgressBar", text |-> <<>>,
               bars |-> <<drawProgressBar(arg.percent, arg.width, arg.invertColors)>>]
    /\ UNCHANGED <<arg, mainVars, termVars, cpuVars>>

\* one call of showBattery on the battery directory drawn
CallShowBattery ==
    /\ out = NoCall
    /\ arg.fn = "showBattery"
    /\ out' = showBattery(arg)
    /\ UNCHANGED <<arg, mainVars, termVars, cpuVars>>

\* one call of showMemory on the memory figures drawn
CallShowMemory ==
    /\ out = NoCall
    /\ arg.fn = "showMemory"
    /\ out' = showMemory(arg)
    /\ UNCHANGED <<arg, mainVars, termVars, cpuVars>>

-----------------------------------------------------------------------------
(* showCPU, lines 194-229 *)

\* a variant of line 202 that counts only the idle column
IdleTime_WithoutIowait(s) == s.idle

\* line 202
IdleTime(s) == s.idle + s.iowait

\* line 203
TotalTime(s) == s.user + s.nice + s.system + IdleTime(s) + s.irq + s.softirq

\* a variant of line 209 that reports the idle share instead of the busy share
CpuUsage_IdleShare(deltaIdle, deltaTotal) ==
    IF deltaTotal # 0 THEN Rat(100 * deltaIdle, deltaTotal) ELSE Rat(0, 1)

\* lines 207-209
CpuUsage(deltaIdle, deltaTotal) ==
    IF deltaTotal # 0
    THEN Rat(100 * (deltaTotal - deltaIdle), deltaTotal)
    ELSE Rat(0, 1)

\* what one call of showCPU on the counters s of /proc/stat does to the
\* statics and writes; temperature and fan lines are not part of the record.
\* readFanRPM (line 224) runs after the statics are stored and the bar is
\* written, and ends the process when it throws.
showCPU(s) ==
    LET idleTime == IdleTime(s)
        totalTime == TotalTime(s)
        deltaIdle == idleTime - prevIdle
        deltaTotal == totalTime - prevTotal
        usage == CpuUsage(deltaIdle, deltaTotal)
    IN  /\ prevIdle' = idleTime
        /\ prevTotal' = totalTime
        /\ out' = [call |-> "showCPU", text |-> <<"CPU", "Usage: ">>,
                   bars |-> <<drawProgressBar(usage, CallerWidth, FALSE)>>]
        /\ exitCode' = IF FanScanThrows THEN 134 ELSE exitCode

\* most jiffies the seven counters of a drawn sample add up to
MaxJiffies == 2

Sum7(s) == s.user + s.nice + s.system + s.idle + s.iowait + s.irq + s.softirq

\* the two samples of the worked example: (idle=100, total=200), (idle=150, total=400)
ExampleFirst ==
    [fn |-> "showCPU", user |-> 100, nice |-> 0, system |-> 0, idle |-> 100,
     iowait |-> 0, irq |-> 0, softirq |-> 0]

ExampleSecond ==
    [fn |-> "showCPU", user |-> 200, nice |-> 20, system |-> 30, idle |-> 120,
     iowait |-> 30, irq |-> 0, softirq |-> 0]

CpuSamples ==
    {s \in [fn : {"showCPU"}, user : 0..MaxJiffies, nice : 0..MaxJiffies,
            system : 0..MaxJiffies, idle : 0..MaxJiffies, iowait : 0..MaxJiffies,
            irq : 0..MaxJiffies, softirq : 0..MaxJiffies] : Sum7(s) <= MaxJiffies}
    \cup {ExampleFirst, ExampleSecond}

\* one call of showCPU in a live process, on any sample
CallShowCPU ==
    /\ exitCode = -1
    /\ \E s \in CpuSamples :
         /\ showCPU(s)
         /\ arg' = s
         /\ cpuBefore' = IF cpuCalls = 0
                         THEN [idle |-> 0, total |-> 0]
                         ELSE [idle |-> arg.idle + arg.iowait, total |-> Sum7(arg)]
    /\ cpuCalls' = IF cpuCalls < 2 THEN cpuCalls + 1 ELSE cpuCalls
    /\ UNCHANGED <<pc, i, stdinq, hwmon, rendered, checks, looped, lastRead, nl>>
    /\ UNCHANGED termVars

-----------------------------------------------------------------------------
(* showDisk, lines 274-302 *)

\* std::string::npos
npos == -1

\* s.find(sub) from position k (0-based): the first position at or after k
\* where sub occurs in s, npos when there is none
RECURSIVE FindFrom(_, _, _)
FindFrom(s, sub, k) ==
    IF k + Len(sub) > Len(s) THEN npos
    ELSE IF SubSeq(s, k + 1, k + Len(sub)) = sub THEN k
    ELSE FindFrom(s, sub, k + 1)

Find(s, sub) == FindFrom(s, sub, 0)

SlashDev == <<"/", "d", "e", "v">>
SlashSys == <<"/", "s", "y", "s">>

\* a variant of line 285 that matches "/dev" and "/sys" only as a path prefix
SkipMount_PrefixOnly(mountpoint) ==
    Find(mountpoint, SlashDev) = 0 \/ Find(mountpoint, SlashSys) = 0

\* line 285
SkipMount(mountpoint) ==
    Find(mountpoint, SlashDev) # npos \/ Find(mountpoint, SlashSys) # npos

\* 1024 * 1024, lines 296-297
MiB == 1048576

\* lines 290-298: the line printed for a mountpoint whose statvfs succeeded;
\* percent is 0/0 when the filesystem reports no blocks
DiskLine(m) ==
    LET total == m.stat.f_blocks * m.stat.f_frsize
        free == m.stat.f_bfree * m.stat.f_frsize
        used == total - free
    IN  [mountpoint |-> m.mountpoint, usedMB |-> used \div MiB,
         totalMB |-> total \div MiB, percent |-> [n |-> 100 * used, d |-> total]]

\* lines 279-300: the loop over the mount lines; each line is given by its
\* first two fields and by what statvfs answers for the mountpoint
RECURSIVE DiskLoop(_)
DiskLoop(ms) ==
    IF ms = <<>> THEN [lines |-> <<>>, queried |-> <<>>]
    ELSE LET m == Head(ms)
             rest == DiskLoop(Tail(ms))
         IN  IF SkipMount(m.mountpoint) THEN rest
             ELSE [lines |-> (IF m.stat.ok THEN <<DiskLine(m)>> ELSE <<>>) \o rest.lines,
                   queried |-> <<m.mountpoint>> \o rest.queried]

showDisk(ms) ==
    LET r == DiskLoop(ms)
    IN  [call |-> "showDisk", text |-> r.lines, queried |-> r.queried, bars |-> <<>>]

\* most lines of /proc/mounts
MaxMounts == 2

Mountpoints ==
    { <<"/">>,
      <<"/", "d", "e", "v">>,
      <<"/", "d", "e", "v", "/", "s", "h", "m">>,
      <<"/", "s", "y", "s">>,
      <<"/", "s", "y", "s", "/", "f", "s">>,
      <<"/", "h", "o", "m", "e">>,
      <<"/", "h", "o", "m", "e", "/", "d", "e", "v", "-", "u", "s", "e", "r">>,
      <<"/", "m", "n", "t", "/", "s", "y", "s", "r", "o", "o", "t">>,
      <<"/", "d", "e">>,
      <<"/", "s", "y", "/", "s">>,
      <<"/", "r", "u", "n">>,
      <<>> }

StatResults ==
    { [ok |-> FALSE, f_blocks |-> 0, f_bfree |-> 0, f_frsize |-> 0],
      [ok |-> TRUE, f_blocks |-> 0, f_bfree |-> 0, f_frsize |-> MiB],
      [ok |-> TRUE, f_blocks |-> 4, f_bfree |-> 1, f_frsize |-> MiB] }

MountLines == [device : {"dev"}, mountpoint : Mountpoints, stat : StatResults]

MountLists == UNION {[1..n -> MountLines] : n \in 0..MaxMounts}

\* one call of showDisk on the mount list drawn
CallShowDisk ==
    /\ out = NoCall
    /\ arg.fn = "showDisk"
    /\ out' = showDisk(arg.mounts)
    /\ UNCHANGED <<arg, mainVars, termVars, cpuVars>>

-----------------------------------------------------------------------------
(* showNetwork, lines 310-346 *)

\* line 327: for (int i = 0; i < 7; ++i) iss >> tx
TxReads == 7

\* iss >> x repeated: the value of the count-th extraction that starts after
\* `done` fields have been read; every line here has all its fields
ExtractNth(fields, done, count) == fields[done + count]

\* line 323: erase(remove(.., ' '))
RECURSIVE StripSpaces(_)
StripSpaces(s) ==
    IF s = <<>> THEN <<>>
    ELSE IF Head(s) = " " THEN StripSpaces(Tail(s))
    ELSE <<Head(s)>> \o StripSpaces(Tail(s))

\* lines 319-329: one interface line, given as the text before the colon and
\* the numeric fields after it
NetLine(l) ==
    LET rx == ExtractNth(l.fields, 0, 1)
        tx == ExtractNth(l.fields, 1, TxReads)
    IN  [iface |-> StripSpaces(l.iface), rxKB |-> rx \div 1024, txKB |-> tx \div 1024]

\* lines 318-330; the wireless part (lines 333-344) only prints and is left out
showNetwork(ls) ==
    [call |-> "showNetwork", text |-> [k \in 1..Len(ls) |-> NetLine(ls[k])],
     bars |-> <<>>]

\* most interface lines of /proc/net/dev
MaxIfaces == 1

\* number of numeric fields of an interface line: 8 receive, 8 transmit
NetFields == 8 + 8

\* the 8 receive fields and transmit bytes vary: field k is 0 or k KiB; the
\* other transmit fields are k KiB
NetFieldSets ==
    {[k \in 1..NetFields |-> IF k \in S \/ k > 9 THEN 1024 * k ELSE 0] :
       S \in SUBSET (1..9)}

IfaceNames == { <<" ", " ", "l", "o">>, <<"e", "t", "h", "0">> }

NetLineSet == [iface : IfaceNames, fields : NetFieldSets]

NetLists == UNION {[1..n -> NetLineSet] : n \in 0..MaxIfaces}

\* one call of showNetwork on the interface lines drawn
CallShowNetwork ==
    /\ out = NoCall
    /\ arg.fn = "showNetwork"
    /\ out' = showNetwork(arg.lines)
    /\ UNCHANGED <<arg, mainVars, termVars, cpuVars>>

-----------------------------------------------------------------------------
(* Specifications *)

Init ==
    /\ pc = "start"
    /\ i = 0
    /\ stdinq = <<>>
    /\ exitCode = -1
    /\ hwmon \in BOOLEAN
    /\ rendered = <<>>
    /\ checks = 0
    /\ looped = FALSE
    /\ lastRead = "none"
    /\ nl = NoNl
    /\ InitTerminal
    /\ CpuOff
    /\ IoOff

Next ==
    \/ Start
    \/ ClearScreen
    \/ MainShowMemory
    \/ MainShowCPU
    \/ MainShowBattery
    \/ MainShowDisk
    \/ MainShowNetwork
    \/ Check
    \/ Feed

Spec == Init /\ [][Next]_vars

InitTerm == MainOff /\ InitTerminal /\ CpuOff /\ IoOff

NextTerm == TermEnable \/ TermDisable

SpecTerm == InitTerm /\ [][NextTerm]_vars

InitBar ==
    /\ MainOff /\ TermOff /\ CpuOff
    /\ arg \in BarArgs \cup BatEnvs \cup MemInfos
    /\ out = NoCall

NextBar == CallDrawProgressBar \/ CallShowBattery \/ CallShowMemory

SpecBar == InitBar /\ [][NextBar]_vars

InitCPU ==
    /\ pc = "off"
    /\ i = 0
    /\ stdinq = <<>>
    /\ exitCode = -1
    /\ hwmon \in BOOLEAN
    /\ rendered = <<>>
    /\ checks = 0
    /\ looped = FALSE
    /\ lastRead = "none"
    /\ nl = NoNl
    /\ TermOff
    /\ CpuOff
    /\ IoOff

NextCPU == CallShowCPU

SpecCPU == InitCPU /\ [][NextCPU]_vars

InitDisk ==
    /\ MainOff /\ TermOff /\ CpuOff
    /\ arg \in [fn : {"showDisk"}, mounts : MountLists]
    /\ out = NoCall

NextDisk == CallShowDisk

SpecDisk == InitDisk /\ [][NextDisk]_vars

InitNet ==
    /\ MainOff /\ TermOff /\ CpuOff
    /\ arg \in [fn : {"showNetwork"}, lines : NetLists]
    /\ out = NoCall

NextNet == CallShowNetwork

SpecNet == InitNet /\ [][NextNet]_vars

-----------------------------------------------------------------------------
(* Properties *)

Abs(x) == IF x < 0 THEN -x ELSE x

Sections == <<"clear", "Memory", "CPU", "Battery", "Disks", "Network">>

IsPrefix(s, t) == Len(s) <= Len(t) /\ \A k \in 1..Len(s) : s[k] = t[k]

\* C1 as stated: once a '\n' has been fed during the wait window, the very
\* next keystroke check ends the program with exit code 0, and no render
\* step runs in between.
C1_QuitAtNextCheck ==
    (nl.ahead >= 0 /\ nl.checks >= 1) =>
        (pc = "quit" /\ exitCode = 0 /\ ~nl.rendered)

\* C1 amended: a '\n' fed during the wait window while standard input holds
\* no unread byte ends the program with exit code 0 at the next keystroke
\* check, that check reading the '\n', and no render step runs in between;
\* fed behind k unread bytes, it ends the program with exit code 0 no later
\* than the (k+1)-th check after it.
C1_QuitOnceReached ==
    /\ (nl.ahead = 0 /\ nl.checks >= 1) =>
           (pc = "quit" /\ exitCode = 0 /\ nl.checks = 1 /\ lastRead = "\n"
            /\ ~nl.rendered)
    /\ (nl.ahead >= 0 /\ nl.checks > nl.ahead) =>
           (pc = "quit" /\ exitCode = 0 /\ nl.checks = nl.ahead + 1)

\* a '\n' was fed into an empty input during the wait window and the next
\* check has quit on it
C1_Witness ==
    nl.ahead = 0 /\ nl.checks = 1 /\ pc = "quit" /\ lastRead = "\n" /\ exitCode = 0

\* C2: over any sequence of setNonBlocking calls the terminal configuration
\* is saved at most once and the saved copy is the configuration before the
\* first enable; after a setNonBlocking(false) the canonical flag, the echo
\* flag and the non-blocking status of standard input are what they were at
\* the start; with nothing saved, nothing has changed.
C2_RestoredExactly ==
    /\ getattrCalls <= 1
    /\ (saved /\ tty => oldt = origL)
    /\ (~saved => (lflag = origL /\ fl = origFl))
    /\ (lastCall = "disable" =>
           /\ lflag \cap {ICANON, ECHO} = origL \cap {ICANON, ECHO}
           /\ (O_NONBLOCK \in fl) = (O_NONBLOCK \in origFl))

\* C3: main is always either running or has quit; a tick writes clear
\* screen, Memory, CPU, Battery, Disks, Network in this order and is followed
\* by exactly 10 keystroke checks; the process ends only by a check that read
\* '\n' or '\r', and then setNonBlocking(false) has been called and the exit
\* code is 0.
C3_TwoStateLoop ==
    /\ pc \in {"start", "clear", "memory", "cpu", "battery", "disks", "network",
               "wait", "quit"}
    /\ IsPrefix(rendered, Sections)
    /\ (pc = "wait" => (rendered = Sections /\ checks = i /\ checks < WaitChecks))
    /\ (pc = "clear" /\ looped => checks = WaitChecks)
    /\ (exitCode # -1 => pc = "quit")
    /\ (pc = "quit" =>
           (lastRead \in {"\n", "\r"} /\ lastCall = "disable" /\ exitCode = 0))

\* C4: after every call of showCPU the stored previous counters are that
\* call's idleTime = idle + iowait and totalTime = sum of the seven counters;
\* from the second call on, the usage shown is 100*(dTotal - dIdle)/dTotal
\* against the sample before, and 0 when dTotal = 0; (idle=100,total=200)
\* followed by (idle=150,total=400) shows 75.0%.
C4_UsageDelta ==
    out.call = "showCPU" =>
        LET idleTime == arg.idle + arg.iowait
            totalTime == Sum7(arg)
            dTotal == totalTime - cpuBefore.total
            dIdle == idleTime - cpuBefore.idle
            shown == out.bars[1].percent
        IN  /\ prevIdle = idleTime
            /\ prevTotal = totalTime
            /\ (cpuCalls = 2 /\ dTotal # 0) =>
                   shown.n * dTotal = 100 * (dTotal - dIdle) * shown.d
            /\ (cpuCalls = 2 /\ dTotal = 0) => shown.n = 0
            /\ (cpuCalls = 2 /\ cpuBefore = [idle |-> 100, total |-> 200]
                /\ idleTime = 150 /\ totalTime = 400) =>
                   out.bars[1].text = 750

\* the second sample of the worked example has been shown after the first
C4_Witness ==
    /\ out.call = "showCPU"
    /\ cpuCalls = 2
    /\ cpuBefore = [idle |-> 100, total |-> 200]
    /\ arg = ExampleSecond
    /\ out.bars[1].text = 750

\* C5: for percent in [0,100] and width > 0 the bar has exactly width cells,
\* the first floor(percent*width/100) of them coloured and the rest gray, and
\* the number after the bar is percent to the nearest tenth.
C5_FillCount ==
    out.call = "drawProgressBar" =>
        LET b == out.bars[1]
            p == arg.percent
            w == arg.width
        IN  /\ Len(b.cells) = w
            /\ \E k \in 0..w :
                  /\ k * 100 * p.d <= p.n * w
                  /\ p.n * w < (k + 1) * 100 * p.d
                  /\ \A j \in 1..w : (j <= k) <=> (b.cells[j] # "gray")
            /\ \A j \in 1..w : b.cells[j] \in {"gray", b.color}
            /\ 2 * Abs(10 * p.n - b.text * p.d) <= p.d

\* 37.625% at width 40: 15 cells filled, 25 gray, "37.6" printed
C5_Witness ==
    /\ out.call = "drawProgressBar"
    /\ arg.percent = Rat(301, 8)
    /\ arg.width = CallerWidth
    /\ out.bars[1].cells[15] # "gray"
    /\ out.bars[1].cells[16] = "gray"
    /\ out.bars[1].text = 376

\* C6: every bar drawn has exactly one of the three colours: not inverted,
\* green below 60, yellow from 60 to below 85, red from 85; inverted, red
\* below 30, yellow from 30 to below 75, green from 75; the battery bar is
\* drawn inverted, the memory bar is not.
C6_ColourBands ==
    \A k \in 1..Len(out.bars) :
        LET b == out.bars[k]
            p == b.percent
        IN  /\ b.color \in {"green", "yellow", "red"}
            /\ ~b.invert =>
                  /\ (b.color = "green") <=> (p.n < 60 * p.d)
                  /\ (b.color = "yellow") <=> (60 * p.d <= p.n /\ p.n < 85 * p.d)
                  /\ (b.color = "red") <=> (85 * p.d <= p.n)
            /\ b.invert =>
                  /\ (b.color = "red") <=> (p.n < 30 * p.d)
                  /\ (b.color = "yellow") <=> (30 * p.d <= p.n /\ p.n < 75 * p.d)
                  /\ (b.color = "green") <=> (75 * p.d <= p.n)
            /\ out.call = "showBattery" => b.invert
            /\ out.call = "showMemory" => ~b.invert

\* 60.0% drawn not inverted is yellow
C6_Witness ==
    /\ out.call = "drawProgressBar"
    /\ arg.percent = Rat(600, 10)
    /\ ~arg.invertColors
    /\ out.bars[1].color = "yellow"

\* C7: showDisk queries and prints no mountpoint that contains "/dev" or
\* "/sys" anywhere, queries every other one, and prints exactly one line, in
\* mount-list order, for every other one whose query succeeds.
HasSubstring(s, sub) ==
    \E k \in 0..(Len(s) - Len(sub)) : \A j \in 1..Len(sub) : s[k + j] = sub[j]

Excluded(m) ==
    HasSubstring(m.mountpoint, SlashDev) \/ HasSubstring(m.mountpoint, SlashSys)

Listed(m) == ~Excluded(m) /\ m.stat.ok

Queried(m) == ~Excluded(m)

C7_DiskExclusion ==
    out.call = "showDisk" =>
        LET kept == SelectSeq(arg.mounts, Listed)
            asked == SelectSeq(arg.mounts, Queried)
        IN  /\ Len(out.text) = Len(kept)
            /\ \A k \in 1..Len(kept) : out.text[k].mountpoint = kept[k].mountpoint
            /\ out.queried = [k \in 1..Len(asked) |-> asked[k].mountpoint]

HomeDevUser == <<"/", "h", "o", "m", "e", "/", "d", "e", "v", "-", "u", "s", "e", "r">>

\* "/home/dev-user" is mounted before "/", both answer statvfs, and only "/"
\* is printed
C7_Witness ==
    /\ out.call = "showDisk"
    /\ Len(arg.mounts) = 2
    /\ arg.mounts[1].mountpoint = HomeDevUser
    /\ arg.mounts[1].stat.ok
    /\ arg.mounts[2].mountpoint = <<"/">>
    /\ arg.mounts[2].stat.ok
    /\ Len(out.text) = 1
    /\ out.text[1].mountpoint = <<"/">>

\* C8: readBattery reports available exactly when the capacity file and the
\* status file both open; otherwise capacity is -1, status "Unknown",
\* showBattery prints "Battery info not available" and draws no bar.
C8_BatteryAvailability ==
    out.call = "showBattery" =>
        /\ out.info.available <=> (arg.capOpen /\ arg.statusOpen)
        /\ ~(arg.capOpen /\ arg.statusOpen) =>
              /\ ~out.info.available
              /\ out.info.capacity = -1
              /\ out.info.status = "Unknown"
              /\ out.text = <<"Battery", "Battery info not available">>
              /\ out.bars = <<>>
        /\ (arg.capOpen /\ arg.statusOpen) =>
              /\ out.info.capacity = arg.capacity
              /\ out.info.status = arg.status
              /\ Len(out.bars) = 1

\* the capacity file opens, the status file does not, the placeholder is printed
C8_Witness ==
    /\ out.call = "showBattery"
    /\ arg.capOpen
    /\ ~arg.statusOpen
    /\ out.text[2] = "Battery info not available"
    /\ out.bars = <<>>

\* C9 as stated: the first call of showCPU in a process shows 0%.
C9_FirstSampleZero ==
    (out.call = "showCPU" /\ cpuCalls = 1) => out.bars[1].percent.n = 0

\* C9 amended: the first call of showCPU in a process shows
\* 100*(totalTime - idleTime)/totalTime of that call's absolute counters, and
\* 0% when totalTime is 0.
C9_FirstSampleSinceBoot ==
    (out.call = "showCPU" /\ cpuCalls = 1) =>
        LET idleTime == arg.idle + arg.iowait
            totalTime == Sum7(arg)
            shown == out.bars[1].percent
        IN  /\ totalTime # 0 => shown.n * totalTime = 100 * (totalTime - idleTime) * shown.d
            /\ totalTime = 0 => shown.n = 0

\* the first call reads (idle=100, total=200) and shows 50.0%
C9_Witness ==
    /\ out.call = "showCPU"
    /\ cpuCalls = 1
    /\ arg = ExampleFirst
    /\ out.bars[1].text = 500

\* C10: for every interface line the RX value printed is that of the first
\* numeric field (receive bytes) and the TX value printed is that of the 9th
\* numeric field (transmit bytes), both in KB.
C10_TxIsTransmitBytes ==
    out.call = "showNetwork" =>
        \A k \in 1..Len(arg.lines) :
            /\ out.text[k].rxKB = arg.lines[k].fields[1] \div 1024
            /\ out.text[k].txKB = arg.lines[k].fields[9] \div 1024

=============================================================================
